---- MODULE Spec2Model ----
(***************************************************************************)
(* Model of the storyboard generator: the App component's project state   *)
(* and its asynchronous handlers (script creation, batch / single / idle  *)
(* video generation, scene edits), the remote video operation client with *)
(* its poll loop, the export to a folder, the full-movie player, the      *)
(* LoggerService publish/subscribe log and the LogPanel that shows it.    *)
(*                                                                        *)
(* JavaScript semantics kept by the model:                                *)
(*  - scene objects live in a heap; `[...scenes]` copies the array, not   *)
(*    the objects, so `updatedScenes[i].status = x` mutates an object     *)
(*    that every array holding it sees;                                   *)
(*  - an async handler keeps the `currentProject` of the render in which  *)
(*    it was started (task.proj), and republishes from it;                *)
(*  - code between two awaits runs without interleaving: `turn` names the *)
(*    task that is inside such a synchronous section (0 = event loop      *)
(*    idle, any handler or reply may run).                                *)
(* Sequences are 1-based: index i here is index i-1 in the source.        *)
(***************************************************************************)
EXTENDS Integers, Sequences, FiniteSets, TLC

\* ---- bounds -------------------------------------------------------------
MaxScenes == 2      \* longest script the remote returns
MaxProjects == 2    \* successful script creations
MaxTasks == 2       \* generation handlers in flight at once
MaxPolls == 1       \* not-done replies per video operation
MaxEdits == 1       \* handleUpdateScene calls
MaxUrls == 2        \* blob URLs created
MaxLogs == 3        \* entries recorded by the logger
MaxListeners == 2   \* subscribe calls
MaxIds == 2         \* distinct values Math.random yields for an entry id
MaxExports == 1     \* handleExportProject calls

VARIABLES
    appState,            \* 'dashboard' | 'editing' | 'preview'
    currentProject,      \* NoProject or [id, scenes: sequence of heap references]
    heap,                \* the Scene objects, by reference
    isGeneratingScript,
    scriptPc,            \* "idle" | "await": handleStartProject awaiting generateScript
    showSettings,
    localKey,            \* localStorage "gemini_api_key"
    envKey,              \* process.env.API_KEY
    tasks,               \* in-flight generateAllVideos / handleGenerate* calls
    turn,                \* task inside a synchronous section, 0 if none
    nextProject,         \* projects created so far + 1
    nextUrl,             \* blob URLs created so far + 1
    edits,               \* handleUpdateScene calls so far
    logged,              \* the entries handed to logger.log by the latest step
    export,              \* the saveProjectToFolder call, in flight or returned
    player,              \* showFullMovie and FullScreenPlayer's currentIndex
    logs,                \* LoggerService.logs
    listeners,           \* LoggerService.listeners
    received,            \* per listener: the entries its callback was called with
    recorded,            \* history: every entry ever emitted
    replayed,            \* history: per listener, what subscribe replayed to it
    subscribedAt,        \* history: per listener, Len(recorded) when it subscribed
    cleared,             \* history: clear() has been called
    panel                \* LogPanel: its listener and its `logs` state

appVars == <<appState, currentProject, heap,
             isGeneratingScript, scriptPc, showSettings, localKey, envKey,
             tasks, turn, nextProject, nextUrl, edits, logged, export, player>>
logVars == <<logs, listeners, received, recorded, replayed, subscribedAt, cleared, panel>>
vars == <<appVars, logVars>>

\* ---- data model ---------------------------------------------------------
NoProject == [id |-> 0, scenes |-> <<>>]

NoTask == [kind |-> "none", pc |-> "none", proj |-> NoProject, scenes |-> <<>>,
           items |-> <<>>, pos |-> 0, index |-> 0, polls |-> 0,
           key |-> "none", downloads |-> 0, downloadKey |-> "none", wins |-> 0]

Tasks == 1..MaxTasks

\* saveProjectToFolder(project): the scene array it iterates, the scene it
\* is writing, savedCount, the files written (0: the project JSON, n:
\* scene_n.mp4) and how the call ended. History: runs (calls so far),
\* attempts (the scenes a video file was attempted for), cause (the failure
\* that ended the call), clean (no scene was completed at any of its steps),
\* passed (while the call runs: the scenes' content when the project was
\* passed to it)
NoExport == [pc |-> "idle", scenes |-> <<>>, pos |-> 0, saved |-> 0, files |-> {},
             result |-> "none", runs |-> 0, attempts |-> <<>>, cause |-> "none",
             clean |-> TRUE, passed |-> <<>>]

\* LogPanel before its effect has run. listener: its callback, 0 while not
\* subscribed; aliased: its state is the very array LoggerService.logs
\* (setLogs(logger.getHistory())); list: its state when it is an array of its own
NoPanel == [listener |-> 0, aliased |-> FALSE, list |-> <<>>]

\* showFullMovie = false. index is currentIndex + 1 (useState(0))
NoPlayer == [open |-> FALSE, index |-> 1]

Entry(level, message, scene, details) ==
    [level |-> level, message |-> message, scene |-> scene, details |-> details]

\* generateScript's hydration of one raw scene
HydrateScene(n) ==
    [scene_number |-> n, status |-> "draft", videoUrl |-> 0, errorMsg |-> "",
     idleStatus |-> "unset", idleVideoUrl |-> 0, previewImageUrl |-> 0,
     description |-> 0]

\* the scripts the remote may return: well numbered 1..n, or numbered backwards
Numbered(n) == [i \in 1..n |-> i]
Reversed(n) == [i \in 1..n |-> n + 1 - i]
RawScripts == {Numbered(n) : n \in 0..MaxScenes} \cup {Reversed(n) : n \in 2..MaxScenes}

\* getClient's credential resolution
ApiKey == IF localKey # "none" THEN localKey ELSE envKey
HasKey == ApiKey # "none"

SceneAt(p, i) == heap[p.scenes[i]]
SceneCount(p) == Len(p.scenes)

\* { ...currentProject, scenes: s }
Republish(p, s) == [id |-> p.id, scenes |-> s]

SetStatus(h, o, st) == [h EXCEPT ![o].status = st]

\* an object that neither the published project nor a handler in flight
\* refers to is unreachable: its content is dropped (garbage collection)
Unreachable == [HydrateScene(0) EXCEPT !.status = "collected"]
Live(p, ts) == {p.scenes[i] : i \in 1..Len(p.scenes)}
                 \cup {export.scenes[i] : i \in 1..Len(export.scenes)}
                 \cup UNION {{ts[t].scenes[i] : i \in 1..Len(ts[t].scenes)} : t \in Tasks}
Collect(h, p, ts) == [o \in 1..Len(h) |-> IF o \in Live(p, ts) THEN h[o] ELSE Unreachable]

FreeTasks == {t \in Tasks : tasks[t].kind = "none"}
FreeTask == CHOOSE t \in FreeTasks : \A u \in FreeTasks : t <= u

\* ---- what the rendered UI lets the user click ----------------------------
\* FullScreenPlayer renders its full-screen layer unless no scene is playable
MovieShown ==
    /\ player.open
    /\ currentProject # NoProject
    /\ \E i \in 1..SceneCount(currentProject) :
          SceneAt(currentProject, i).videoUrl # 0 /\ SceneAt(currentProject, i).status = "completed"
Overlay == showSettings \/ MovieShown
ProjectShown == currentProject # NoProject /\ appState \in {"editing", "preview"}
\* the editor pane of scene `index`, once the user has selected it in the
\* Timeline (onSceneSelect, offered whenever the project is shown)
EditorShown(index) ==
    /\ ProjectShown
    /\ index \in 1..SceneCount(currentProject)
    /\ ~Overlay

Init ==
    /\ appState = "dashboard"
    /\ currentProject = NoProject
    /\ heap = <<>>
    /\ isGeneratingScript = FALSE
    /\ scriptPc = "idle"
    /\ localKey \in {"none", "local"}
    /\ envKey \in {"none", "env"}
    /\ showSettings = (localKey = "none" /\ envKey = "none")
    /\ tasks = [t \in Tasks |-> NoTask]
    /\ turn = 0
    /\ nextProject = 1
    /\ nextUrl = 1
    /\ edits = 0
    /\ logged = IF localKey = "none" /\ envKey = "none"
                THEN <<Entry("info", "No API Key detected, opening settings.", 0, "none")>>
                ELSE <<>>
    /\ export = NoExport
    /\ player = NoPlayer
    /\ logs = <<>>
    /\ listeners = <<>>
    /\ received = <<>>
    /\ recorded = <<>>
    /\ replayed = <<>>
    /\ subscribedAt = <<>>
    /\ cleared = FALSE
    /\ panel = NoPanel

\* ---- script creation (handleStartProject, generateScript) ----------------
StartButton == appState = "dashboard" /\ ~Overlay /\ ~isGeneratingScript

\* the catch of handleStartProject without its finally (C7 is tried against it)
ScriptFailedInProgress(entries) ==
    /\ showSettings' = TRUE
    /\ scriptPc' = "idle"
    /\ logged' = entries
    /\ UNCHANGED <<appState, currentProject, heap, isGeneratingScript,
                   localKey, envKey, tasks, turn, nextProject, nextUrl, edits>>
\* the catch / finally of handleStartProject: alert, open settings, clear the flag
ScriptFailed(entries) ==
    /\ showSettings' = TRUE
    /\ isGeneratingScript' = FALSE
    /\ scriptPc' = "idle"
    /\ logged' = entries
    /\ UNCHANGED <<appState, currentProject, heap,
                   localKey, envKey, tasks, turn, nextProject, nextUrl, edits>>

\* setCurrentProject(newProject); setAppState('editing')
ScriptInstalled(raw) ==
    /\ currentProject' = [id |-> nextProject,
                          scenes |-> [i \in 1..Len(raw) |-> Len(heap) + i]]
    /\ heap' = Collect(heap \o [i \in 1..Len(raw) |-> HydrateScene(raw[i])],
                       currentProject', tasks)
    /\ nextProject' = nextProject + 1
    /\ appState' = "editing"
    /\ isGeneratingScript' = FALSE
    /\ scriptPc' = "idle"
    /\ logged' = <<Entry("success", "Script generated successfully", 0, "none"),
                   Entry("info", "Project initialized", 0, "sceneCount")>>
    /\ UNCHANGED <<showSettings, localKey, envKey, tasks, turn, nextUrl, edits>>

\* click on "Generate Script": up to the first await inside generateScript
HandleStartProject ==
    /\ turn = 0
    /\ StartButton
    /\ IF HasKey
       THEN /\ isGeneratingScript' = TRUE
            /\ scriptPc' = "await"
            /\ logged' = <<Entry("info", "Starting script generation", 0, "topic")>>
            /\ UNCHANGED <<appState, currentProject, heap,
                           showSettings, localKey, envKey, tasks, turn, nextProject,
                           nextUrl, edits>>
       ELSE ScriptFailed(<<Entry("info", "Starting script generation", 0, "topic"),
                           Entry("error", "API Key missing", 0, "none")>>)
    /\ UNCHANGED <<export, player, logVars>>

\* the remote's answer to generateContent
ScriptReplies == {"throws", "empty", "malformed", "scenes"}

ScriptReply(reply, raw) ==
    /\ turn = 0
    /\ scriptPc = "await"
    /\ CASE reply = "throws" ->
              ScriptFailed(<<Entry("error", "Script generation failed", 0, "err")>>)
         [] reply = "empty" ->
              ScriptFailed(<<Entry("error", "Empty response from AI for script", 0, "none"),
                             Entry("error", "Script generation failed", 0, "err")>>)
         [] reply = "malformed" ->
              ScriptFailed(<<Entry("success", "Script generated successfully", 0, "none"),
                             Entry("error", "Script generation failed", 0, "err")>>)
         [] OTHER ->
              /\ nextProject <= MaxProjects
              /\ ScriptInstalled(raw)
    /\ UNCHANGED <<export, player, logVars>>

\* ---- scene edits and navigation -----------------------------------------
HandleUpdateScene(index) ==
    /\ turn = 0
    /\ EditorShown(index)
    /\ edits < MaxEdits
    /\ currentProject' = Republish(currentProject,
            [currentProject.scenes EXCEPT ![index] = Len(heap) + 1])
    /\ heap' = Collect(Append(heap, [SceneAt(currentProject, index) EXCEPT !.description = edits + 1]),
                       currentProject', tasks)
    /\ edits' = edits + 1
    /\ logged' = <<>>
    /\ UNCHANGED <<appState, isGeneratingScript, scriptPc,
                   showSettings, localKey, envKey, tasks, turn, nextProject, nextUrl>>
    /\ UNCHANGED <<export, player, logVars>>

\* header logo: setAppState('dashboard'); "Edit" button: setAppState('editing')
SetAppState(target) ==
    /\ turn = 0
    /\ ~Overlay
    /\ \/ target = "dashboard" /\ appState # "dashboard"
       \/ target = "editing" /\ appState = "preview" /\ currentProject # NoProject
    /\ appState' = target
    /\ logged' = <<>>
    /\ UNCHANGED <<currentProject, heap, isGeneratingScript,
                   scriptPc, showSettings, localKey, envKey, tasks, turn, nextProject,
                   nextUrl, edits>>
    /\ UNCHANGED <<export, player, logVars>>

\* ---- settings (SettingsModal) -------------------------------------------
SetShowSettings(open) ==
    /\ turn = 0
    /\ showSettings # open
    /\ showSettings' = open
    /\ logged' = <<>>
    /\ UNCHANGED <<appState, currentProject, heap,
                   isGeneratingScript, scriptPc, localKey, envKey, tasks, turn,
                   nextProject, nextUrl, edits>>
    /\ UNCHANGED <<export, player, logVars>>

\* apiKeyInput.trim() non-empty: setItem; empty: removeItem
HandleSaveKey(input) ==
    /\ turn = 0
    /\ showSettings
    /\ localKey # input
    /\ localKey' = input
    /\ logged' = <<>>
    /\ UNCHANGED <<appState, currentProject, heap,
                   isGeneratingScript, scriptPc, showSettings, envKey, tasks, turn,
                   nextProject, nextUrl, edits>>
    /\ UNCHANGED <<export, player, logVars>>

\* ---- video generation: the handlers' own writes --------------------------
\* a selection by status instead of by reference (C15 is tried against it)
ScenesToProcessByStatus(p) ==
    SelectSeq([i \in 1..SceneCount(p) |-> i], LAMBDA i : SceneAt(p, i).status # "completed")
\* scenesToProcess: the indices of the scenes without a video reference
ScenesToProcess(p) ==
    SelectSeq([i \in 1..SceneCount(p) |-> i], LAMBDA i : SceneAt(p, i).videoUrl = 0)

MarkAll(h, objs, st) == [o \in 1..Len(h) |-> IF o \in objs THEN [h[o] EXCEPT !.status = st] ELSE h[o]]

\* try-branch and catch-branch of generateAllVideos / handleGenerateSingleScene
SceneVideoCompleted(h, o, url) == [h EXCEPT ![o].videoUrl = url, ![o].status = "completed"]
\* a catch-branch that records the message only (C8 is tried against it)
SceneVideoFailedQuietly(h, o, msg) == [h EXCEPT ![o].errorMsg = msg]
SceneVideoFailed(h, o, msg) == [h EXCEPT ![o].status = "error", ![o].errorMsg = msg]
\* try-branch and catch-branch of handleGenerateIdleScene
IdleVideoCompleted(h, o, url) == [h EXCEPT ![o].idleVideoUrl = url, ![o].idleStatus = "completed"]
IdleVideoFailed(h, o) == [h EXCEPT ![o].idleStatus = "error"]

FailMessage(kind) == IF kind = "batch" THEN "Failed to generate" ELSE "Generation failed"

TargetIndex(task) == IF task.kind = "batch" THEN task.items[task.pos] ELSE task.index
TargetObj(task) == task.scenes[TargetIndex(task)]
TargetNumber(task) == heap[TargetObj(task)].scene_number

\* what the handler writes once generateSceneVideo / generateIdleVideo has
\* returned url (ok) or thrown (~ok)
Outcome(h, task, ok, url) ==
    IF task.kind = "idle"
    THEN IF ok THEN IdleVideoCompleted(h, TargetObj(task), url)
               ELSE IdleVideoFailed(h, TargetObj(task))
    ELSE IF ok THEN SceneVideoCompleted(h, TargetObj(task), url)
               ELSE SceneVideoFailed(h, TargetObj(task), FailMessage(task.kind))

HandlerEntries(task, ok) ==
    IF task.kind = "idle"
    THEN IF ok THEN <<Entry("success", "Idle animation generated for scene", TargetIndex(task), "none")>>
               ELSE <<Entry("error", "Failed idle animation for scene", TargetIndex(task), "none")>>
    ELSE <<>>

\* the rest of the handler after the await: write the outcome, republish from
\* the handler's own closure; a batch goes on to its next item without yielding
Settle(t, ok, url, entries) ==
    LET task == tasks[t] IN
    /\ currentProject' = Republish(task.proj, task.scenes)
    /\ logged' = entries \o HandlerEntries(task, ok)
    /\ IF task.kind = "batch"
       THEN /\ tasks' = [tasks EXCEPT ![t].pos = @ + 1, ![t].pc = "loop",
                                      ![t].wins = @ + (IF ok THEN 1 ELSE 0)]
            /\ turn' = t
       ELSE /\ tasks' = [tasks EXCEPT ![t] = NoTask]
            /\ turn' = 0
    /\ heap' = Collect(Outcome(heap, task, ok, url), currentProject', tasks')
    /\ UNCHANGED <<appState, isGeneratingScript, scriptPc, showSettings,
                   localKey, envKey, nextProject, edits>>

\* generateSceneVideo / generateIdleVideo up to `await ai.models.generateVideos`
StartEntries(kind, n) ==
    IF kind = "idle" THEN <<Entry("info", "Starting Idle Animation for Scene", n, "idlePrompt")>>
    ELSE <<Entry("info", "Starting video generation for Scene", n, "prompt")>>

\* ---- generateAllVideos ---------------------------------------------------
GenerateMovieButton ==
    /\ currentProject # NoProject
    /\ appState = "editing"
    /\ ~Overlay
    /\ \A i \in 1..SceneCount(currentProject) : SceneAt(currentProject, i).status # "generating"

GenerateAllVideos ==
    /\ turn = 0
    /\ GenerateMovieButton
    /\ LET items == ScenesToProcess(currentProject) IN
       IF items = <<>>
       THEN /\ appState' = "preview"
            /\ logged' = <<Entry("info", "All scenes already generated", 0, "none")>>
            /\ UNCHANGED <<currentProject, heap, tasks, turn>>
       ELSE /\ FreeTasks # {}
            /\ heap' = MarkAll(heap, {currentProject.scenes[items[k]] : k \in 1..Len(items)}, "pending")
            /\ currentProject' = Republish(currentProject, currentProject.scenes)
            /\ tasks' = [tasks EXCEPT ![FreeTask] =
                    [NoTask EXCEPT !.kind = "batch", !.pc = "loop", !.proj = currentProject,
                                   !.scenes = currentProject.scenes, !.items = items, !.pos = 1]]
            /\ turn' = FreeTask
            /\ logged' = <<Entry("info", "Queueing generation for scenes", Len(items), "none")>>
            /\ UNCHANGED appState
    /\ UNCHANGED <<isGeneratingScript, scriptPc, showSettings,
                   localKey, envKey, nextProject, nextUrl, edits>>
    /\ UNCHANGED <<export, player, logVars>>

\* one pass of `for (const item of scenesToProcess)` up to its await, or the
\* two statements after the loop
BatchLoop(t) ==
    LET task == tasks[t] IN
    /\ turn = t
    /\ task.kind = "batch" /\ task.pc = "loop"
    /\ IF task.pos > Len(task.items)
       THEN /\ appState' = "preview"
            /\ logged' = <<Entry("success", "Batch generation complete", 0, "none")>>
            /\ tasks' = [tasks EXCEPT ![t] = NoTask]
            /\ turn' = 0
            /\ heap' = Collect(heap, currentProject, tasks')
            /\ UNCHANGED currentProject
       ELSE /\ currentProject' = Republish(task.proj, task.scenes)
            /\ UNCHANGED appState
            /\ IF HasKey
               THEN /\ tasks' = [tasks EXCEPT ![t].pc = "submit", ![t].polls = 0,
                                              ![t].downloads = 0, ![t].key = ApiKey,
                                              ![t].downloadKey = "none"]
                    /\ heap' = Collect(SetStatus(heap, TargetObj(task), "generating"),
                                       currentProject', tasks')
                    /\ turn' = 0
                    /\ logged' = StartEntries("batch", TargetNumber(task))
               ELSE /\ tasks' = [tasks EXCEPT ![t].pos = @ + 1]
                    /\ heap' = Collect(Outcome(SetStatus(heap, TargetObj(task), "generating"),
                                               task, FALSE, 0),
                                       currentProject', tasks')
                    /\ turn' = t
                    /\ logged' = <<Entry("error", "API Key missing", 0, "none")>>
    /\ UNCHANGED <<isGeneratingScript, scriptPc, showSettings,
                   localKey, envKey, nextProject, nextUrl, edits>>
    /\ UNCHANGED <<export, player, logVars>>

\* ---- handleGenerateSingleScene / handleGenerateIdleScene -----------------
GenerateClipButton(index) ==
    /\ EditorShown(index)
    /\ LET activeScene == SceneAt(currentProject, index) IN
       (activeScene.videoUrl = 0 \/ activeScene.status \in {"error", "draft"})
          => activeScene.status # "generating"

GenIdleButton(index) ==
    /\ EditorShown(index)
    /\ SceneAt(currentProject, index).idleStatus # "generating"

\* the handler up to its await; without a credential getClient throws at once
\* and the catch-branch runs in the same turn
StartSingle(kind, index) ==
    LET t == FreeTask
        o == currentProject.scenes[index]
        task == [NoTask EXCEPT !.kind = kind, !.pc = "submit", !.proj = currentProject,
                               !.scenes = currentProject.scenes, !.index = index,
                               !.key = ApiKey]
        marked == IF kind = "idle" THEN [heap EXCEPT ![o].idleStatus = "generating"]
                  ELSE SetStatus(heap, o, "generating")
    IN
    /\ turn = 0
    /\ FreeTasks # {}
    /\ currentProject' = Republish(currentProject, currentProject.scenes)
    /\ IF HasKey
       THEN /\ heap' = marked
            /\ tasks' = [tasks EXCEPT ![t] = task]
            /\ logged' = StartEntries(kind, heap[o].scene_number)
       ELSE /\ heap' = Outcome(marked, task, FALSE, 0)
            /\ tasks' = tasks
            /\ logged' = <<Entry("error", "API Key missing", 0, "none")>> \o HandlerEntries(task, FALSE)
    /\ UNCHANGED <<appState, isGeneratingScript, scriptPc, showSettings,
                   localKey, envKey, turn, nextProject, nextUrl, edits>>
    /\ UNCHANGED <<export, player, logVars>>

HandleGenerateSingleScene(index) == GenerateClipButton(index) /\ StartSingle("single", index)

HandleGenerateIdleScene(index) == GenIdleButton(index) /\ StartSingle("idle", index)

\* ---- the remote video operation (generateSceneVideo, generateIdleVideo) --
\* what `generateVideos` / `getVideosOperation` may answer
OperationReplies == {"throws", "notDone", "doneError", "doneNoUri", "doneUri"}

OperationEntries(task, reply) ==
    LET n == TargetNumber(task)
        started == IF task.kind # "idle" /\ task.pc = "submit"
                   THEN <<Entry("info", "Operation started for Scene", n, "operationName")>>
                   ELSE <<>>
        caught == IF task.kind = "idle"
                  THEN <<Entry("error", "Error generating idle for Scene", n, "error")>>
                  ELSE <<Entry("error", "Error processing Scene", n, "error")>>
    IN CASE reply = "throws" -> caught
         [] reply = "notDone" -> started
         [] reply = "doneError" ->
              started \o (IF task.kind = "idle" THEN <<>>
                          ELSE <<Entry("error", "Generation error for Scene", n, "operation.error")>>)
                      \o caught
         [] reply = "doneNoUri" ->
              started \o (IF task.kind = "idle" THEN <<>>
                          ELSE <<Entry("error", "No video URI found for Scene", n, "fullResponse")>>)
                      \o caught
         [] OTHER ->
              started \o (IF task.kind = "idle" THEN <<>>
                          ELSE <<Entry("success", "Video generated for Scene, downloading...", n, "none")>>)

\* a client that answers a failed status re-fetch by fetching again (C21 is
\* tried against it)
OperationReplyRetrying(t, reply) ==
    LET task == tasks[t] IN
    /\ turn = 0
    /\ task.pc \in {"submit", "poll"}
    /\ CASE reply = "notDone" \/ (reply = "throws" /\ task.pc = "poll") ->
              /\ reply = "notDone" => task.polls < MaxPolls
              /\ tasks' = [tasks EXCEPT ![t].pc = "poll",
                                        ![t].polls = IF reply = "notDone" THEN @ + 1 ELSE @]
              /\ logged' = OperationEntries(task, "notDone")
              /\ UNCHANGED <<appState, currentProject, heap,
                             isGeneratingScript, scriptPc, showSettings, localKey, envKey,
                             turn, nextProject, edits>>
         [] reply = "doneUri" ->
              /\ tasks' = [tasks EXCEPT ![t].pc = "fetch", ![t].downloads = @ + 1,
                                        ![t].downloadKey = ApiKey]
              /\ logged' = OperationEntries(task, reply)
              /\ UNCHANGED <<appState, currentProject, heap,
                             isGeneratingScript, scriptPc, showSettings, localKey, envKey,
                             turn, nextProject, edits>>
         [] OTHER -> Settle(t, FALSE, 0, OperationEntries(task, reply))
    /\ UNCHANGED nextUrl
    /\ UNCHANGED <<export, player, logVars>>
\* the answer to the submission or to a status re-fetch, and what the client
\* does with it: poll again, fail, or request the download
OperationReply(t, reply) ==
    LET task == tasks[t] IN
    /\ turn = 0
    /\ task.pc \in {"submit", "poll"}
    /\ CASE reply = "notDone" ->
              /\ task.polls < MaxPolls
              /\ tasks' = [tasks EXCEPT ![t].pc = "poll", ![t].polls = @ + 1]
              /\ logged' = OperationEntries(task, reply)
              /\ UNCHANGED <<appState, currentProject, heap,
                             isGeneratingScript, scriptPc, showSettings, localKey, envKey,
                             turn, nextProject, edits>>
         [] reply = "doneUri" ->
              /\ tasks' = [tasks EXCEPT ![t].pc = "fetch", ![t].downloads = @ + 1,
                                        ![t].downloadKey = ApiKey]
              /\ logged' = OperationEntries(task, reply)
              /\ UNCHANGED <<appState, currentProject, heap,
                             isGeneratingScript, scriptPc, showSettings, localKey, envKey,
                             turn, nextProject, edits>>
         [] OTHER -> Settle(t, FALSE, 0, OperationEntries(task, reply))
    /\ UNCHANGED nextUrl
    /\ UNCHANGED <<export, player, logVars>>

\* the answer to `fetch(fetchUrl)` and the blob URL made from it
FetchReplies == {"ok", "notOk", "throws"}

FetchEntries(task, reply) ==
    LET n == TargetNumber(task) IN
    IF task.kind = "idle"
    THEN IF reply = "ok" THEN <<>>
         ELSE <<Entry("error", "Error generating idle for Scene", n, "error")>>
    ELSE IF reply = "ok"
         THEN <<Entry("success", "Video ready for playback: Scene", n, "none")>>
         ELSE <<Entry("error", "Error processing Scene", n, "error")>>

FetchReply(t, reply) ==
    LET task == tasks[t] IN
    /\ turn = 0
    /\ task.pc = "fetch"
    /\ IF reply = "ok"
       THEN /\ nextUrl <= MaxUrls
            /\ nextUrl' = nextUrl + 1
            /\ Settle(t, TRUE, nextUrl, FetchEntries(task, reply))
       ELSE /\ UNCHANGED nextUrl
            /\ Settle(t, FALSE, 0, FetchEntries(task, reply))
    /\ UNCHANGED <<export, player, logVars>>

\* ---- full-movie playback (FullScreenPlayer) -------------------------------
\* the header's Watch Movie button
WatchMovieButton ==
    /\ currentProject # NoProject
    /\ ~Overlay
    /\ \E i \in 1..SceneCount(currentProject) : SceneAt(currentProject, i).status = "completed"

\* playableScenes = scenes.filter(s => s.videoUrl && s.status === 'completed')
PlayableScenes(p) ==
    SelectSeq(p.scenes, LAMBDA o : heap[o].videoUrl # 0 /\ heap[o].status = "completed")

PlayerFrame ==
    /\ logged' = <<>>
    /\ UNCHANGED <<appState, currentProject, heap, isGeneratingScript, scriptPc,
                   showSettings, localKey, envKey, tasks, turn, nextProject, nextUrl, edits,
                   export>>
    /\ UNCHANGED logVars

\* click on Watch Movie: setShowFullMovie(true) mounts the player at index 0
OpenFullMovie ==
    /\ turn = 0
    /\ WatchMovieButton
    /\ ~player.open
    /\ player' = [open |-> TRUE, index |-> 1]
    /\ PlayerFrame

\* the player's close button: onClose
CloseFullMovie ==
    /\ turn = 0
    /\ MovieShown
    /\ player' = NoPlayer
    /\ PlayerFrame

\* the video element's ended event and the Forward button
\* (`currentIndex < playableScenes.length - 1`)
HandleEnded ==
    /\ turn = 0
    /\ MovieShown
    /\ player.index <= Len(PlayableScenes(currentProject))
    /\ player.index < Len(PlayableScenes(currentProject))
    /\ player' = [player EXCEPT !.index = @ + 1]
    /\ PlayerFrame

PlayerNext ==
    /\ turn = 0
    /\ MovieShown
    /\ player.index < Len(PlayableScenes(currentProject))
    /\ player' = [player EXCEPT !.index = @ + 1]
    /\ PlayerFrame

\* the Backward button (`currentIndex > 0`)
PlayerPrev ==
    /\ turn = 0
    /\ MovieShown
    /\ player.index > 1
    /\ player' = [player EXCEPT !.index = @ - 1]
    /\ PlayerFrame

\* ---- export (handleExportProject, saveProjectToFolder) --------------------
\* the header's Export button: rendered whenever a project exists
ExportButton == currentProject # NoProject /\ ~Overlay

\* a loop that looks at the reference alone (C11 is tried against it)
ExportableByReference(scene) == scene.videoUrl # 0
\* scene.videoUrl && scene.status === 'completed'
Exportable(scene) == scene.videoUrl # 0 /\ scene.status = "completed"

\* the for loop up to its next await: the first scene at or after `from`
\* that qualifies, Len(scenes) + 1 if none is left
RECURSIVE NextExportable(_, _)
NextExportable(scenes, from) ==
    IF from > Len(scenes) THEN from
    ELSE IF Exportable(heap[scenes[from]]) THEN from
    ELSE NextExportable(scenes, from + 1)

\* the objects an array of scenes refers to, as JSON.stringify reads them
Content(scenes) == [i \in 1..Len(scenes) |-> heap[scenes[i]]]

NoneCompleted(scenes) == \A i \in 1..Len(scenes) : heap[scenes[i]].status # "completed"

\* the outer catch: AbortError returns false, anything else is rethrown
ExportFailed(e, name, where) ==
    /\ export' = [e EXCEPT !.pc = "idle",
                           !.result = IF name = "AbortError" THEN "false" ELSE "thrown",
                           !.cause = where, !.passed = <<>>,
                           !.clean = e.clean /\ NoneCompleted(e.scenes)]
    /\ logged' = IF name = "AbortError"
                 THEN <<Entry("info", "Export cancelled by user.", 0, "none")>>
                 ELSE <<Entry("error", "Export failed", 0, name)>>

\* the video loop from scene `from` on: start the next attempt or return
ExportLoop(e, from, entries) ==
    LET next == NextExportable(e.scenes, from)
        seen == [e EXCEPT !.clean = e.clean /\ NoneCompleted(e.scenes)] IN
    IF next <= Len(e.scenes)
    THEN /\ export' = [seen EXCEPT !.pc = "video", !.pos = next,
                                   !.attempts = Append(e.attempts, next)]
         /\ logged' = entries
    ELSE /\ export' = [seen EXCEPT !.pc = "idle", !.pos = next, !.passed = <<>>,
                                   !.result = IF e.saved > 0 THEN "true" ELSE "false"]
         /\ logged' = Append(entries,
                IF e.saved > 0
                THEN Entry("success", "Export complete!", 0, "savedCount")
                ELSE Entry("warn", "Export finished but no videos were ready to save.", 0, "none"))

ExportFrame ==
    /\ UNCHANGED <<appState, currentProject, heap, isGeneratingScript, scriptPc,
                   showSettings, localKey, envKey, tasks, turn, nextProject, nextUrl, edits,
                   player>>
    /\ UNCHANGED logVars

\* click on Export, up to the await of showDirectoryPicker
HandleExportProject(platform) ==
    /\ turn = 0
    /\ ExportButton
    /\ export.pc = "idle"
    /\ export.runs < MaxExports
    /\ LET e == [NoExport EXCEPT !.scenes = currentProject.scenes, !.runs = export.runs + 1,
                                 !.passed = Content(currentProject.scenes)] IN
       IF platform = "picker"
       THEN /\ export' = [e EXCEPT !.pc = "picker", !.clean = NoneCompleted(e.scenes)]
            /\ logged' = <<>>
       ELSE ExportFailed(e, "Error", "unsupported")
    /\ ExportFrame

\* showDirectoryPicker settles
PickerReplies == {"selected", "AbortError", "SecurityError"}
PickerReply(reply) ==
    /\ turn = 0
    /\ export.pc = "picker"
    /\ IF reply = "selected"
       THEN /\ export' = [export EXCEPT !.pc = "json",
                                        !.clean = export.clean /\ NoneCompleted(export.scenes)]
            /\ logged' = <<Entry("info", "Directory selected, starting export...", 0, "none")>>
       ELSE ExportFailed(export, reply, IF reply = "AbortError" THEN "cancelled" ELSE "picker")
    /\ ExportFrame

\* getFileHandle / createWritable / write / close of the project JSON settle
JsonReplies == {"written", "AbortError", "NotAllowedError"}
JsonReply(reply) ==
    /\ turn = 0
    /\ export.pc = "json"
    /\ IF reply = "written"
       THEN ExportLoop([export EXCEPT !.files = export.files \cup {0}], 1,
                       <<Entry("success", "Project data saved.", 0, "none")>>)
       ELSE ExportFailed(export, reply, "json")
    /\ ExportFrame

VideoReplies == {"written", "fails"}
\* a loop without its inner try / catch (C12 is tried against it)
VideoReplyUncaught(reply) ==
    /\ turn = 0
    /\ export.pc = "video"
    /\ LET number == heap[export.scenes[export.pos]].scene_number IN
       IF reply = "written"
       THEN ExportLoop([export EXCEPT !.files = export.files \cup {number},
                                      !.saved = export.saved + 1],
                       export.pos + 1, <<Entry("info", "Saved", number, "fileName")>>)
       ELSE ExportFailed(export, "Error", "video")
    /\ ExportFrame
\* the fetch and the write of one scene's video settle
VideoReply(reply) ==
    /\ turn = 0
    /\ export.pc = "video"
    /\ LET number == heap[export.scenes[export.pos]].scene_number IN
       IF reply = "written"
       THEN ExportLoop([export EXCEPT !.files = export.files \cup {number},
                                      !.saved = export.saved + 1],
                       export.pos + 1, <<Entry("info", "Saved", number, "fileName")>>)
       ELSE ExportLoop(export, export.pos + 1,
                       <<Entry("error", "Failed to save video for scene", number, "err")>>)
    /\ ExportFrame

\* ---- LoggerService -----------------------------------------------------------
\* log() handles every level alike; one level other than clear()'s is kept
LogLevels == {"error"}

LogEntry(id, level, message) == [id |-> id, level |-> level, message |-> message]

\* a replay that starts from the newest entry (C9 is tried against it)
ReplayNewestFirst(inbox, history) ==
    inbox \o [k \in 1..Len(history) |-> history[Len(history) + 1 - k]]
\* this.logs.forEach(log => listener(log)): the calls a new listener gets
Replay(inbox, history) == inbox \o history

\* this.listeners.forEach(l => l(entry))
Notify(rcv, ls, entry) ==
    [l \in 1..Len(rcv) |->
        LET calls == Cardinality({k \in 1..Len(ls) : ls[k] = l})
        IN rcv[l] \o [k \in 1..calls |-> entry]]

\* emit: push the entry, then call every listener
Emit(history, entry) ==
    /\ logs' = Append(history, entry)
    /\ received' = Notify(received, listeners, entry)
    /\ recorded' = Append(recorded, entry)

\* LogPanel's callback: setLogs(prev => prev.find(l => l.id === newLog.id) ?
\* prev : [...prev, newLog])
Deduplicated(prev, newLog) ==
    IF \E k \in 1..Len(prev) : prev[k].id = newLog.id THEN prev ELSE Append(prev, newLog)

\* the panel's state after emit has called its callback with `entry`. prev is
\* the content of the array `logs` before the call; same: emit pushed onto
\* that array (log) rather than onto a new one (clear). A state that is the
\* logger's own array already holds the entry when the updater looks for it
PanelNotified(p, prev, entry, same) ==
    IF p.listener = 0 THEN p
    ELSE IF p.aliased /\ same THEN p
    ELSE [p EXCEPT !.aliased = FALSE,
                   !.list = Deduplicated(IF p.aliased THEN prev ELSE p.list, entry)]

\* what the panel shows on its next render
PanelView == IF panel.aliased THEN logs ELSE panel.list

\* subscribe(listener) with a callback not subscribed before
Subscribe ==
    /\ Len(received) < MaxListeners
    /\ listeners' = Append(listeners, Len(received) + 1)
    /\ received' = Append(received, Replay(<<>>, logs))
    /\ replayed' = Append(replayed, logs)
    /\ subscribedAt' = Append(subscribedAt, Len(recorded))
    /\ UNCHANGED <<logs, recorded, cleared, panel>>
    /\ UNCHANGED appVars

\* a handle that removes whatever sits at the position its callback was
\* pushed to (C26 is tried against it)
UnsubscribeByPosition(l) ==
    /\ l \in 1..Len(listeners)
    /\ listeners' = [k \in 1..(Len(listeners) - 1) |-> IF k < l THEN listeners[k] ELSE listeners[k + 1]]
    /\ panel' = IF panel.listener = l THEN [panel EXCEPT !.listener = 0] ELSE panel
    /\ UNCHANGED <<logs, received, recorded, replayed, subscribedAt, cleared>>
    /\ UNCHANGED appVars
\* the function subscribe returned
Unsubscribe(l) ==
    /\ l \in 1..Len(received)
    /\ listeners' = SelectSeq(listeners, LAMBDA x : x # l)
    /\ listeners' # listeners
    /\ panel' = IF panel.listener = l THEN [panel EXCEPT !.listener = 0] ELSE panel
    /\ UNCHANGED <<logs, received, recorded, replayed, subscribedAt, cleared>>
    /\ UNCHANGED appVars

\* log(level, message, details)
Log(id, level) ==
    /\ Len(recorded) < MaxLogs
    /\ Emit(logs, LogEntry(id, level, "message"))
    /\ panel' = PanelNotified(panel, logs, LogEntry(id, level, "message"), TRUE)
    /\ UNCHANGED <<listeners, replayed, subscribedAt, cleared>>
    /\ UNCHANGED appVars

\* a clear that only empties the history (C10 is tried against it)
ClearSilently(id) ==
    /\ Len(recorded) < MaxLogs
    /\ logs' = <<>>
    /\ cleared' = TRUE
    /\ UNCHANGED <<listeners, received, recorded, replayed, subscribedAt, panel>>
    /\ UNCHANGED appVars
\* clear(): this.logs = []; this.info('Logs cleared')
Clear(id) ==
    /\ Len(recorded) < MaxLogs
    /\ Emit(<<>>, LogEntry(id, "info", "Logs cleared"))
    /\ panel' = PanelNotified(panel, logs, LogEntry(id, "info", "Logs cleared"), FALSE)
    /\ cleared' = TRUE
    /\ UNCHANGED <<listeners, replayed, subscribedAt>>
    /\ UNCHANGED appVars

\* ---- LogPanel -----------------------------------------------------------------
\* the mount effect: subscribe, then setLogs(logger.getHistory()). App mounts
\* the panel once, and its effect runs before anything is logged
PanelMount ==
    /\ panel = NoPanel
    /\ recorded = <<>>
    /\ Len(received) < MaxListeners
    /\ listeners' = Append(listeners, Len(received) + 1)
    /\ received' = Append(received, Replay(<<>>, logs))
    /\ replayed' = Append(replayed, logs)
    /\ subscribedAt' = Append(subscribedAt, Len(recorded))
    /\ panel' = [listener |-> Len(received) + 1, aliased |-> TRUE, list |-> <<>>]
    /\ UNCHANGED <<logs, recorded, cleared>>
    /\ UNCHANGED appVars

\* the Clear Console button: logger.clear(); setLogs([])
PanelClear(id) ==
    /\ panel.listener # 0
    /\ Len(recorded) < MaxLogs
    /\ Emit(<<>>, LogEntry(id, "info", "Logs cleared"))
    /\ panel' = [PanelNotified(panel, logs, LogEntry(id, "info", "Logs cleared"), FALSE)
                    EXCEPT !.aliased = FALSE, !.list = <<>>]
    /\ cleared' = TRUE
    /\ UNCHANGED <<listeners, replayed, subscribedAt>>
    /\ UNCHANGED appVars

\* the effect's cleanup: () => unsubscribe()
PanelUnmount == panel.listener # 0 /\ Unsubscribe(panel.listener)

\* the panel beside the handlers that log
NextPanel ==
    \/ PanelMount
    \/ PanelUnmount
    \/ \E id \in 1..MaxIds, level \in LogLevels : Log(id, level)
    \/ \E id \in 1..MaxIds : PanelClear(id)

\* ---- callbacks that call the logger ------------------------------------------
\* where callback l sits in this.listeners (each callback is subscribed once)
Position(l) == CHOOSE k \in 1..Len(listeners) : listeners[k] = l

\* log(level, message) during whose dispatch the callback at position k calls
\* log for a second entry: the inner emit pushes it and calls every listener
\* before the outer forEach goes on to position k + 1
LogFromCallback(id, inner, level, k) ==
    LET first == LogEntry(id, level, "message")
        second == LogEntry(inner, level, "message")
        called(l) == IF Position(l) <= k THEN <<first, second>> ELSE <<second, first>>
    IN
    /\ Len(recorded) + 2 <= MaxLogs
    /\ k \in 1..Len(listeners)
    /\ logs' = logs \o <<first, second>>
    /\ recorded' = recorded \o <<first, second>>
    /\ received' = [l \in 1..Len(received) |->
                        IF \E j \in 1..Len(listeners) : listeners[j] = l
                        THEN received[l] \o called(l) ELSE received[l]]
    /\ panel' = IF panel.listener = 0 THEN panel
                ELSE PanelNotified(PanelNotified(panel, logs, called(panel.listener)[1], TRUE),
                                   logs, called(panel.listener)[2], TRUE)
    /\ UNCHANGED <<listeners, replayed, subscribedAt, cleared>>
    /\ UNCHANGED appVars

\* log(level, message) during whose dispatch a callback invokes the handle of
\* callback l: forEach goes on over the array it started with
LogUnsubscribing(id, level, l) ==
    /\ Len(recorded) < MaxLogs
    /\ listeners # <<>>
    /\ l \in 1..Len(received)
    /\ Emit(logs, LogEntry(id, level, "message"))
    /\ listeners' = SelectSeq(listeners, LAMBDA x : x # l)
    /\ listeners' # listeners
    /\ panel' = LET p == PanelNotified(panel, logs, LogEntry(id, level, "message"), TRUE)
                IN IF p.listener = l THEN [p EXCEPT !.listener = 0] ELSE p
    /\ UNCHANGED <<replayed, subscribedAt, cleared>>
    /\ UNCHANGED appVars

NextLogger ==
    \/ Subscribe
    \/ \E l \in 1..MaxListeners : Unsubscribe(l)
    \/ \E id \in 1..MaxIds, level \in LogLevels : Log(id, level)
    \/ \E id \in 1..MaxIds : Clear(id)

\* a deployment with a build-time credential and no stored override
InitKeyed == Init /\ localKey = "none" /\ envKey = "env"

\* the logger alone, under any sequence of calls
SpecLogger == InitKeyed /\ [][NextLogger]_vars

\* the logger with callbacks that log or unsubscribe while they are called
NextReentrant ==
    \/ NextLogger
    \/ \E id \in 1..MaxIds, inner \in 1..MaxIds, level \in LogLevels, k \in 1..MaxListeners :
          LogFromCallback(id, inner, level, k)
    \/ \E id \in 1..MaxIds, level \in LogLevels, l \in 1..MaxListeners :
          LogUnsubscribing(id, level, l)
SpecReentrant == InitKeyed /\ [][NextReentrant]_vars

\* the diagnostics panel, under any sequence of log calls and clears
SpecPanel == InitKeyed /\ [][NextPanel]_vars

\* ---- the application ------------------------------------------------------
Script == HandleStartProject \/ \E reply \in ScriptReplies, raw \in RawScripts : ScriptReply(reply, raw)
\* the remote answers every script request with a full-length, well numbered script
ScriptWell == HandleStartProject \/ \E reply \in ScriptReplies : ScriptReply(reply, Numbered(MaxScenes))
Navigate == \E target \in {"dashboard", "editing"} : SetAppState(target)
Settings == (\E open \in BOOLEAN : SetShowSettings(open)) \/ (\E input \in {"none", "local"} : HandleSaveKey(input))
Edit == \E index \in 1..MaxScenes : HandleUpdateScene(index)
Batch == GenerateAllVideos \/ \E t \in Tasks : BatchLoop(t)
Single == \E index \in 1..MaxScenes : HandleGenerateSingleScene(index)
Idle == \E index \in 1..MaxScenes : HandleGenerateIdleScene(index)
Remote == \/ \E t \in Tasks, reply \in OperationReplies : OperationReply(t, reply)
          \/ \E t \in Tasks, reply \in FetchReplies : FetchReply(t, reply)
Export == \/ \E platform \in {"picker", "none"} : HandleExportProject(platform)
          \/ \E reply \in PickerReplies : PickerReply(reply)
          \/ \E reply \in JsonReplies : JsonReply(reply)
          \/ \E reply \in VideoReplies : VideoReply(reply)

Player == OpenFullMovie \/ CloseFullMovie \/ HandleEnded \/ PlayerNext \/ PlayerPrev

\* every handler, in any interleaving the event loop allows
Next == Script \/ Navigate \/ Settings \/ Edit \/ Batch \/ Single \/ Idle \/ Remote \/ Export \/ Player
Spec == Init /\ [][Next]_vars

\* The specifications the claims are checked under are Spec with the user
\* keeping to a part of the interface, which keeps each state space finite
\* enough to explore in full.

\* script creation, navigation and settings
NextScript == Script \/ Navigate \/ Settings
SpecScript == Init /\ [][NextScript]_vars

\* the remote finishes every operation by the first poll
RemotePrompt == \/ \E t \in Tasks, reply \in OperationReplies \ {"notDone"} : OperationReply(t, reply)
                \/ \E t \in Tasks, reply \in FetchReplies : FetchReply(t, reply)

\* batch and single-scene generation with scene edits
NextBatch == ScriptWell \/ Edit \/ Batch \/ Single \/ RemotePrompt
SpecBatch == InitKeyed /\ [][NextBatch]_vars

\* batch generation of one project, under every answer of the remote
NextPoll == Script \/ Batch \/ Remote
SpecPoll == InitKeyed /\ [][NextPoll]_vars

\* batch generation repeated through the header's navigation
NextRebatch == ScriptWell \/ Navigate \/ Batch \/ Remote
SpecRebatch == InitKeyed /\ [][NextRebatch]_vars

\* idle-loop generation with scene edits
NextIdle == ScriptWell \/ Edit \/ Idle \/ Remote
SpecIdle == InitKeyed /\ [][NextIdle]_vars

\* export beside single-scene generation
NextExport == ScriptWell \/ Single \/ RemotePrompt \/ Export
SpecExport == InitKeyed /\ [][NextExport]_vars

\* script, batch and idle generation, with the credential added and removed
\* in the settings
NextKeys == ScriptWell \/ Settings \/ Batch \/ Idle \/ RemotePrompt
SpecKeys == Init /\ [][NextKeys]_vars

\* the video client of task t is handed the answer it awaits
RemoteOf(t) == \/ \E reply \in OperationReplies : OperationReply(t, reply)
               \/ \E reply \in FetchReplies : FetchReply(t, reply)

\* batch and idle-loop generation under every answer of the remote; every
\* awaited promise settles and synchronous code runs to its next await
NextClient == ScriptWell \/ Batch \/ Idle \/ Remote
SpecClient == /\ InitKeyed /\ [][NextClient]_vars
              /\ \A t \in Tasks : WF_vars(RemoteOf(t)) /\ WF_vars(BatchLoop(t))

\* the full-movie overlay beside batch and single-scene generation
NextPlayer == ScriptWell \/ Batch \/ Single \/ RemotePrompt \/ Player
SpecPlayer == InitKeyed /\ [][NextPlayer]_vars

\* ==== properties ==========================================================
SceneNow(i) == heap[currentProject.scenes[i]]
SceneNext(i) == heap'[currentProject'.scenes[i]]
Scenes == 1..SceneCount(currentProject)
LastLogged == IF logged = <<>> THEN Entry("none", "", 0, "none") ELSE logged[Len(logged)]
Terminal == {"completed", "error"}

\* the step in which the handler of task t learns that its generation failed
FailureStep(t) ==
    \/ \E reply \in {"throws", "doneError", "doneNoUri"} : OperationReply(t, reply)
    \/ \E reply \in {"notOk", "throws"} : FetchReply(t, reply)
SettleStep(t) == FailureStep(t) \/ FetchReply(t, "ok")

\* C1: in the state in which generateAllVideos has just completed, every scene
\* of the project has status completed or error (none is pending or generating).
C1_BatchLeavesNoSceneInFlight ==
    LastLogged.message = "Batch generation complete"
        => \A i \in Scenes : SceneNow(i).status \in Terminal

\* C2: for every scene of the project, videoUrl is set exactly when status is
\* completed, and idleVideoUrl is set exactly when idleStatus is completed.
C2_ReferenceIffCompleted ==
    \A i \in Scenes :
        /\ (SceneNow(i).videoUrl # 0) <=> (SceneNow(i).status = "completed")
        /\ (SceneNow(i).idleVideoUrl # 0) <=> (SceneNow(i).idleStatus = "completed")

\* C3: a batch ends only after it has gone through every scene it selected,
\* one at a time, and the step in which one of its scenes fails leaves the
\* status and videoUrl of every other scene of the project as they were.
C3_BatchFailureIsolated ==
    /\ [][\A t \in Tasks : tasks[t].kind = "batch" =>
            /\ tasks'[t].kind = "none" => tasks[t].pos > Len(tasks[t].items)
            /\ tasks'[t].kind = "batch" => tasks'[t].pos \in {tasks[t].pos, tasks[t].pos + 1}]_vars
    /\ [][\A t \in Tasks : (tasks[t].kind = "batch" /\ FailureStep(t)) =>
            /\ SceneCount(currentProject') = SceneCount(currentProject)
            /\ \A j \in Scenes \ {TargetIndex(tasks[t])} :
                  /\ SceneNext(j).status = SceneNow(j).status
                  /\ SceneNext(j).videoUrl = SceneNow(j).videoUrl]_vars

\* C4: while a batch waits for the generation of one of its scenes, every
\* scene it selected before that one is completed or error and every scene it
\* selected after it is still pending; and the batch issues the request for a
\* scene only in a state where the published project is the batch's own, with
\* the outcome of the scene before.
C4_BatchStrictlyOrdered ==
    /\ [](\A t \in Tasks :
            (tasks[t].kind = "batch" /\ tasks[t].pc \in {"submit", "poll", "fetch"}) =>
                \A k \in 1..Len(tasks[t].items) :
                    LET st == heap[tasks[t].scenes[tasks[t].items[k]]].status IN
                    /\ k < tasks[t].pos => st \in Terminal
                    /\ k > tasks[t].pos => st = "pending")
    /\ [][\A t \in Tasks :
            (BatchLoop(t) /\ tasks[t].pos \in 2..Len(tasks[t].items)) =>
                /\ currentProject = Republish(tasks[t].proj, tasks[t].scenes)
                /\ SceneNow(tasks[t].items[tasks[t].pos - 1]).status \in Terminal]_vars

\* C5: a step of idle-loop generation for scene i (its start, its success, its
\* failure) changes nothing in the project but scene i's idleStatus and
\* idleVideoUrl.
IdleFields(scene) == [scene EXCEPT !.idleStatus = "unset", !.idleVideoUrl = 0]
C5_IdleTouchesOnlyIdleFields ==
    [][\A t \in Tasks : (tasks[t].kind = "idle" /\ SettleStep(t)) =>
            /\ SceneCount(currentProject') = SceneCount(currentProject)
            /\ \A j \in Scenes :
                  IF j = tasks[t].index
                  THEN IdleFields(SceneNext(j)) = IdleFields(SceneNow(j))
                  ELSE SceneNext(j) = SceneNow(j)]_vars

\* C6: the project that a successful script creation has just installed has
\* at least one scene, scene numbers that start at 1 and increase strictly,
\* and every scene in status draft.
C6_InstalledProjectWellFormed ==
    LastLogged.message = "Project initialized" =>
        /\ SceneCount(currentProject) > 0
        /\ SceneNow(1).scene_number = 1
        /\ \A i \in Scenes : SceneNow(i).status = "draft"
        /\ \A i, j \in Scenes : i < j => SceneNow(i).scene_number < SceneNow(j).scene_number

\* C7: the step in which script creation fails (missing credential, remote
\* error, empty or malformed response) leaves the current project, the scene
\* objects and the application view as they were and clears the
\* script-in-progress flag.
ScriptFailureStep ==
    \/ HandleStartProject /\ ~HasKey
    \/ \E reply \in {"throws", "empty", "malformed"}, raw \in RawScripts : ScriptReply(reply, raw)
C7_FailedScriptInstallsNothing ==
    [][ScriptFailureStep =>
            /\ currentProject' = currentProject
            /\ heap' = heap
            /\ appState' = appState
            /\ isGeneratingScript' = FALSE]_vars
\* a failed attempt made while a project exists
C7_Witness ==
    /\ LastLogged.message = "Script generation failed"
    /\ currentProject # NoProject
    /\ SceneCount(currentProject) > 0
    /\ ~isGeneratingScript

\* C8: whatever the number of not-done answers before it, the step in which a
\* primary-video operation reports done with an error leaves the scene in
\* status error in the published project, records an error entry carrying the
\* operation's error, and no download was or is requested for the operation.
C8_OperationErrorFailsScene ==
    [][\A t \in Tasks :
            (tasks[t].kind \in {"batch", "single"} /\ OperationReply(t, "doneError")) =>
                /\ SceneNext(TargetIndex(tasks[t])).status = "error"
                /\ \E k \in 1..Len(logged') :
                      /\ logged'[k].level = "error"
                      /\ logged'[k].details = "operation.error"
                      /\ logged'[k].scene = TargetNumber(tasks[t])
                /\ tasks[t].downloads = 0
                /\ tasks'[t].pc # "fetch"
                /\ nextUrl' = nextUrl]_vars
\* a batch whose operation reported the error after MaxPolls not-done answers
C8_Witness ==
    \E t \in Tasks :
        /\ tasks[t].kind = "batch" /\ tasks[t].pc = "loop"
        /\ tasks[t].polls = MaxPolls /\ tasks[t].pos > 1
        /\ \E k \in 1..Len(logged) : logged[k].message = "Generation error for Scene"
        /\ heap[tasks[t].scenes[tasks[t].items[tasks[t].pos - 1]]].status = "error"

\* C9: a subscribed callback has received the history as it was when it
\* subscribed, in order, followed by exactly the entries recorded since.
Subscribed(l) == \E k \in 1..Len(listeners) : listeners[k] = l
C9_ReplayThenLive ==
    \A l \in 1..Len(received) :
        Subscribed(l) =>
            received[l] = replayed[l] \o SubSeq(recorded, subscribedAt[l] + 1, Len(recorded))
\* a callback that was replayed two entries and has received a later one
C9_Witness ==
    \E l \in 1..Len(received) :
        /\ Subscribed(l)
        /\ Len(replayed[l]) >= 2
        /\ replayed[l][1] # replayed[l][2]
        /\ Len(received[l]) > Len(replayed[l])

\* C10: clear() leaves a history of exactly one entry, the info-level
\* "Logs cleared", of which every subscribed callback is notified; once
\* cleared, the history is never empty.
C10_ClearIsRecorded ==
    /\ [](cleared => logs # <<>>)
    /\ [][(\E id \in 1..MaxIds : Clear(id)) =>
            /\ Len(logs') = 1
            /\ logs'[1].level = "info" /\ logs'[1].message = "Logs cleared"
            /\ \A l \in 1..Len(received) :
                  Subscribed(l) => received'[l] = Append(received[l], logs'[1])]_vars
\* a clear of a history of two entries with a callback subscribed
C10_Witness ==
    /\ cleared
    /\ Len(recorded) >= 3
    /\ Len(logs) = 1 /\ logs[1].message = "Logs cleared"
    /\ \E l \in 1..Len(received) : Subscribed(l) /\ Len(received[l]) >= 3

\* ---- export ---------------------------------------------------------------
ExportEnded == export.result # "none"
VideoFiles == export.files \ {0}

\* C11 as stated: an export during which no scene was completed has written
\* the project JSON and no video file, and has returned false.
C11_EmptyExportWritesJsonOnly ==
    (ExportEnded /\ export.clean) =>
        /\ 0 \in export.files
        /\ VideoFiles = {}
        /\ export.result = "false"

\* C11, amended: an export that got its directory and wrote the project JSON,
\* and during which no scene was completed, has attempted and written no
\* video file and has returned false without throwing.
C11_EmptyExportAfterJson ==
    (ExportEnded /\ export.clean /\ 0 \in export.files) =>
        /\ export.attempts = <<>>
        /\ VideoFiles = {}
        /\ export.result = "false"
\* such an export of a project that has a scene with a video reference left
\* from an earlier generation
C11_Witness ==
    /\ ExportEnded /\ export.clean /\ 0 \in export.files
    /\ export.result = "false"
    /\ Len(export.scenes) >= 2
    /\ \E i \in 1..Len(export.scenes) : heap[export.scenes[i]].videoUrl # 0

\* C12: the export loop attempts a video for the next scene in order that is
\* completed and has a reference, skipping exactly those that are not; a
\* failed attempt is logged and the loop goes on; the export that ran its
\* loop returns true exactly when a video file was written.
ExportFrom == IF export.pc = "json" THEN 1 ELSE export.pos + 1
Qualifies(o) == heap[o].status = "completed" /\ heap[o].videoUrl # 0
C12_ExportAttemptsCompletedScenes ==
    /\ [][(export.pc \in {"json", "video"} /\ export'.attempts # export.attempts) =>
            /\ export'.attempts = Append(export.attempts, export'.pos)
            /\ export'.pos \in ExportFrom..Len(export.scenes)
            /\ Qualifies(export.scenes[export'.pos])
            /\ \A q \in ExportFrom..(export'.pos - 1) : ~Qualifies(export.scenes[q])]_vars
    /\ [][(export.pc \in {"json", "video"} /\ export'.pc = "idle" /\ export'.cause = "none") =>
            /\ \A q \in ExportFrom..Len(export.scenes) : ~Qualifies(export.scenes[q])
            /\ export'.result \in {"true", "false"}
            /\ export'.result = "true" <=> (export'.files \ {0}) # {}]_vars
    /\ [][VideoReply("fails") =>
            /\ \E k \in 1..Len(logged') : logged'[k].level = "error"
            /\ export'.result # "thrown"
            /\ export'.files = export.files]_vars
\* an export whose first attempt failed and whose second was written
C12_Witness ==
    /\ ExportEnded
    /\ Len(export.attempts) >= 2
    /\ export.saved = 1
    /\ export.result = "true"
    /\ VideoFiles = {heap[export.scenes[export.attempts[2]]].scene_number}

\* C13: the export returns false with the "cancelled" entry only when the
\* directory picker was cancelled, and then nothing was written; every other
\* failure outside the video loop is logged as an error and thrown.
C13_OnlyPickerCancelIsBenign ==
    /\ LastLogged.message = "Export cancelled by user." =>
            /\ export.cause = "cancelled"
            /\ export.files = {}
            /\ export.result = "false"
    /\ (ExportEnded /\ export.cause \in {"unsupported", "picker", "json"}) =>
            export.result = "thrown"
    /\ LastLogged.message = "Export failed" =>
            /\ LastLogged.level = "error"
            /\ export.result = "thrown"

\* ---- references and selection ----------------------------------------------
SameProject == currentProject'.id = currentProject.id /\ currentProject.id # 0

\* C14: in a step that changes the videoUrl of a scene of the project, a
\* primary-video generation for that scene succeeds and the new value is the
\* reference it returned; a failing generation leaves its scene in status
\* error with the videoUrl it had.
C14_VideoUrlChangesOnSuccessOnly ==
    /\ [][SameProject =>
            \A i \in Scenes :
                SceneNext(i).videoUrl # SceneNow(i).videoUrl =>
                    \E t \in Tasks :
                        /\ tasks[t].kind \in {"batch", "single"}
                        /\ TargetIndex(tasks[t]) = i
                        /\ FetchReply(t, "ok")
                        /\ SceneNext(i).videoUrl = nextUrl]_vars
    /\ [][\A t \in Tasks :
            (tasks[t].kind \in {"batch", "single"} /\ FailureStep(t)) =>
                /\ SceneNext(TargetIndex(tasks[t])).status = "error"
                /\ SceneNext(TargetIndex(tasks[t])).videoUrl
                      = SceneNow(TargetIndex(tasks[t])).videoUrl]_vars

\* C15: the click on Generate Movie starts a batch over exactly the scenes
\* without a video reference, whatever their status, and marks those pending;
\* when every scene has a reference it changes no scene, starts nothing and
\* records the info entry "All scenes already generated".
Lacking == {i \in Scenes : SceneNow(i).videoUrl = 0}
C15_BatchSelectsScenesWithoutVideo ==
    [][GenerateAllVideos =>
        IF Lacking = {}
        THEN /\ heap' = heap /\ currentProject' = currentProject
             /\ tasks' = tasks
             /\ logged' = <<Entry("info", "All scenes already generated", 0, "none")>>
        ELSE /\ \E t \in Tasks :
                   /\ tasks[t].kind = "none" /\ tasks'[t].kind = "batch"
                   /\ {tasks'[t].items[k] : k \in 1..Len(tasks'[t].items)} = Lacking
                   /\ Len(tasks'[t].items) = Cardinality(Lacking)
             /\ \A i \in Scenes :
                   /\ SceneNext(i).videoUrl = SceneNow(i).videoUrl
                   /\ SceneNext(i).status = IF i \in Lacking THEN "pending"
                                             ELSE SceneNow(i).status]_vars
\* the click found every scene with a reference, one of them in status error
C15_Witness ==
    /\ LastLogged.message = "All scenes already generated"
    /\ SceneCount(currentProject) >= 2
    /\ \E i \in Scenes : SceneNow(i).status = "error" /\ SceneNow(i).videoUrl # 0

\* ---- credential -----------------------------------------------------------
\* the step in which a handler calls a remote operation
RemoteCall ==
    \/ HandleStartProject
    \/ \E index \in 1..MaxScenes : HandleGenerateSingleScene(index) \/ HandleGenerateIdleScene(index)
    \/ \E t \in Tasks : BatchLoop(t) /\ tasks[t].pos <= Len(tasks[t].items)
InFlight(t) == tasks[t].pc \in {"submit", "poll", "fetch"}

\* C16: a remote operation called while neither credential exists issues no
\* request, and the settings overlay is open after the call.
C16_MissingKeyOpensSettings ==
    [][(~HasKey /\ RemoteCall) =>
            /\ scriptPc' = "idle"
            /\ \A t \in Tasks : tasks'[t].pc \in {"submit", "poll", "fetch"} => InFlight(t)
            /\ showSettings' = TRUE]_vars

\* ---- generations in flight ------------------------------------------------
Generating == {i \in Scenes : SceneNow(i).status = "generating"}
PrimaryInFlight == {t \in Tasks : tasks[t].kind \in {"batch", "single"} /\ InFlight(t)}

\* C17: once no generation handler is in flight any more, no scene of the
\* project is in status generating: every scene that entered generating has
\* reached completed or error by the time the operations have finished.
C17_NoSceneLeftGenerating ==
    (\A t \in Tasks : tasks[t].kind = "none") => Generating = {}

\* C18: at most one scene of the project is generating, at most one
\* primary-video request is in flight, and no single-scene generation runs
\* for a scene that a running batch has still to generate or is generating.
C18_OneGenerationAtATime ==
    /\ Cardinality(Generating) <= 1
    /\ Cardinality(PrimaryInFlight) <= 1
    /\ \A t, u \in Tasks :
          (tasks[t].kind = "batch" /\ tasks[u].kind = "single") =>
              \A k \in tasks[t].pos..Len(tasks[t].items) : tasks[t].items[k] # tasks[u].index

\* ---- navigation and playback ----------------------------------------------
\* C19: while the dashboard is shown no Project exists, and neither Export
\* nor Watch Movie is offered.
C19_DashboardHasNoProject ==
    appState = "dashboard" =>
        /\ currentProject = NoProject
        /\ ~ExportButton
        /\ ~WatchMovieButton

\* C20: when a batch that selected every scene of the project ends, after k
\* of its generations succeeded and the others failed, exactly k scenes are
\* completed, the others are error, and the full-movie playlist is the
\* completed scenes in scene order.
BatchEnds(t) == BatchLoop(t) /\ tasks[t].pos > Len(tasks[t].items)
WithStatus(st) == {i \in Scenes : SceneNow(i).status = st}
C20_BatchOutcomeCounts ==
    [][\A t \in Tasks :
        (BatchEnds(t) /\ Len(tasks[t].items) = SceneCount(currentProject)
                      /\ tasks[t].proj.id = currentProject.id) =>
            /\ Cardinality(WithStatus("completed")) = tasks[t].wins
            /\ Cardinality(WithStatus("error")) = SceneCount(currentProject) - tasks[t].wins
            /\ PlayableScenes(currentProject)
                  = SelectSeq(currentProject.scenes, LAMBDA o : heap[o].status = "completed")
            /\ Len(PlayableScenes(currentProject)) = tasks[t].wins
            /\ currentProject' = currentProject]_vars

\* ---- the video client's poll loop -----------------------------------------
DoneReplies == {"doneError", "doneNoUri", "doneUri"}
Awaiting(t) == tasks[t].pc \in {"submit", "poll", "fetch"}

\* C21: the client issues a status re-fetch only on a not-done answer, and
\* none on a done answer (none at all when the submission answers done); a
\* re-fetch that fails ends the call with the handler's error outcome; a call
\* ends with a reference or with an error; and every call ends.
C21_PollsUntilDone ==
    /\ [][\A t \in Tasks :
            /\ (tasks'[t].pc = "poll" /\ tasks'[t] # tasks[t]) =>
                    /\ OperationReply(t, "notDone")
                    /\ tasks'[t].polls = tasks[t].polls + 1
            /\ (\E reply \in DoneReplies : OperationReply(t, reply)) => tasks'[t].pc # "poll"
            /\ (tasks[t].pc = "submit" /\ \E reply \in DoneReplies : OperationReply(t, reply)) =>
                    tasks[t].polls = 0
            /\ (tasks[t].pc = "poll" /\ OperationReply(t, "throws")) =>
                    /\ tasks'[t].pc \notin {"submit", "poll", "fetch"}
                    /\ heap'[TargetObj(tasks[t])] = Outcome(heap, tasks[t], FALSE, 0)[TargetObj(tasks[t])]
                    /\ \E k \in 1..Len(logged') : logged'[k].level = "error"
            /\ (Awaiting(t) /\ tasks'[t].pc \notin {"submit", "poll", "fetch"}) =>
                    LET after == heap'[TargetObj(tasks[t])] IN
                    IF FetchReply(t, "ok")
                    THEN IF tasks[t].kind = "idle"
                         THEN after.idleVideoUrl = nextUrl /\ after.idleStatus = "completed"
                         ELSE after.videoUrl = nextUrl /\ after.status = "completed"
                    ELSE IF tasks[t].kind = "idle"
                         THEN after.idleStatus = "error"
                         ELSE after.status = "error"]_vars
    /\ \A t \in Tasks : Awaiting(t) ~> ~Awaiting(t)
\* an idle-loop call that was answered not done MaxPolls times, then done,
\* and now awaits its download
C21_Witness ==
    \E t \in Tasks :
        /\ tasks[t].kind = "idle" /\ tasks[t].pc = "fetch"
        /\ tasks[t].polls = MaxPolls /\ tasks[t].downloads = 1

\* ---- the credential of a video call ----------------------------------------
\* C22: the credential attached to the download request of a video call is
\* the credential its generation request was submitted with.
C22_DownloadUsesSubmitCredential ==
    \A t \in Tasks : tasks[t].pc = "fetch" => tasks[t].downloadKey = tasks[t].key

\* ---- single-scene generation ------------------------------------------------
\* C23: the step in which the generation of the primary video of scene i
\* starts or completes (with a reference or with an error) leaves every other
\* scene of the project with the content it had just before.
C23_SingleSceneTouchesOnlyItsScene ==
    /\ [][\A index \in 1..MaxScenes : HandleGenerateSingleScene(index) =>
            /\ SceneCount(currentProject') = SceneCount(currentProject)
            /\ \A j \in Scenes \ {index} : SceneNext(j) = SceneNow(j)]_vars
    /\ [][\A t \in Tasks : (tasks[t].kind = "single" /\ SettleStep(t)) =>
            /\ SceneCount(currentProject') = SceneCount(currentProject)
            /\ \A j \in Scenes \ {tasks[t].index} : SceneNext(j) = SceneNow(j)]_vars

\* ---- export as a snapshot ---------------------------------------------------
\* C24: the project JSON is written with the scenes' content as it was when
\* the project was passed to the export, and every video file written is of
\* a scene that was completed, with the same reference, at that time.
C24_ExportIsPointInTime ==
    /\ [][JsonReply("written") => Content(export.scenes) = export.passed]_vars
    /\ [][VideoReply("written") =>
            /\ Exportable(export.passed[export.pos])
            /\ export.passed[export.pos].videoUrl = heap[export.scenes[export.pos]].videoUrl]_vars

\* ---- the diagnostics panel ---------------------------------------------------
\* C25: after the panel's clear action the panel's entry list is the logger
\* history, and holds the "Logs cleared" entry.
C25_PanelShowsTheClear ==
    [][(\E id \in 1..MaxIds : PanelClear(id)) =>
            /\ PanelView' = logs'
            /\ \E k \in 1..Len(PanelView') : PanelView'[k].message = "Logs cleared"]_vars

\* ---- unsubscribing -----------------------------------------------------------
\* C26: invoking the handle of a callback removes that callback and no
\* other; a callback that is not subscribed is called with nothing; and every
\* subscribed callback is called with every entry recorded.
C26_UnsubscribedReceivesNothing ==
    /\ [][\A l \in 1..Len(received) : Unsubscribe(l) =>
            /\ \A k \in 1..Len(listeners') : listeners'[k] # l
            /\ \A m \in 1..Len(received) \ {l} :
                  Subscribed(m) <=> \E k \in 1..Len(listeners') : listeners'[k] = m
            /\ received' = received]_vars
    /\ [][\A l \in 1..Len(received) : ~Subscribed(l) => received'[l] = received[l]]_vars
    /\ [][\A l \in 1..Len(received) : (Subscribed(l) /\ recorded' # recorded) =>
            received'[l] = Append(received[l], recorded'[Len(recorded')])]_vars
\* the first callback was unsubscribed before the latest entry, which the
\* second callback received
C26_Witness ==
    /\ Len(received) = 2 /\ Len(recorded) >= 2
    /\ ~Subscribed(1) /\ Subscribed(2)
    /\ received[1] # <<>>
    /\ Len(received[1]) < Len(received[2])
    /\ received[2][Len(received[2])] = recorded[Len(recorded)]
    /\ received[1][Len(received[1])] # recorded[Len(recorded)]

\* ---- entry ids --------------------------------------------------------------
\* C27: no two entries ever recorded have the same id, and the panel adds
\* to its list every entry recorded while it is subscribed.
C27_EntryIdsDistinct ==
    /\ [](\A i, j \in 1..Len(recorded) : i # j => recorded[i].id # recorded[j].id)
    /\ [][(panel.listener # 0 /\ \E id \in 1..MaxIds, level \in LogLevels : Log(id, level)) =>
            /\ PanelView' # <<>>
            /\ PanelView'[Len(PanelView')] = recorded'[Len(recorded')]
            /\ Len(PanelView') = Len(PanelView) + 1]_vars

\* ---- order of delivery ------------------------------------------------------
\* s can be had from r by leaving entries out
RECURSIVE InOrder(_, _)
InOrder(s, r) ==
    IF s = <<>> THEN TRUE
    ELSE IF r = <<>> THEN FALSE
    ELSE IF Head(s) = Head(r) THEN InOrder(Tail(s), Tail(r))
    ELSE InOrder(s, Tail(r))

\* C28: the entries a callback has been called with are in the order in
\* which they were recorded.
C28_DeliveryFollowsHistory ==
    \A l \in 1..Len(received) : InOrder(received[l], recorded)

\* ---- a new project beside generations in flight -------------------------------
\* C29: the published project is never replaced by one installed before it.
C29_InstalledProjectStays ==
    [][currentProject'.id >= currentProject.id]_vars

\* ---- the full-movie overlay ---------------------------------------------------
\* C30: while the full-movie overlay is open, the current index refers to a
\* scene of the playlist.
C30_PlayerIndexInRange ==
    player.open => player.index \in 1..Len(PlayableScenes(currentProject))

====
